---- MODULE Spec2Model ----
(***************************************************************************)
(* Model of prim_ops.py: the OPS registry, its Down/Up/Norm name lists,    *)
(* the BaseOp pipeline (forward) and the four operation classes.           *)
(* A tensor is modelled by its shape (channels, depth, height, width);     *)
(* the sizes the framework layers produce are computed with the            *)
(* framework's size formulas from the arguments the code passes.           *)
(***************************************************************************)
EXTENDS Integers, Sequences, FiniteSets, TLC

VARIABLES phase, req, op, input, result

vars == <<phase, req, op, input, result>>

(***************************************************************************)
(* Bounds of the model and constants of the program.                       *)
(***************************************************************************)
MaxChannels == 48
MaxGroups == 2
MaxN == 8
MaxStride == 2
MaxDilation == 2
MaxTokens == 3

KernelSize == 3
PoolKernel == 2
PoolStride == 2
ChannelsPerGroup == 16

NoOp == [cls |-> "none"]
NoTensor == [c |-> 0, d |-> 0, h |-> 0, w |-> 0]
NoResult == [status |-> "none", x |-> NoTensor, trace |-> <<>>, calls |-> <<>>]
NoReq == [via |-> "none"]

(***************************************************************************)
(* Ops-order strings.  A string is the sequence of its pieces: a word, or  *)
(* the separator "_".  Join writes a token list as the string, an empty    *)
(* token contributing no piece.                                            *)
(***************************************************************************)
Tokens == {"weight", "norm", "act", "foo", ""}
Recognized == {"weight", "norm", "act"}

RECURSIVE Join(_)
Join(ts) ==
  IF Len(ts) = 0 THEN <<>>
  ELSE LET w == IF Head(ts) = "" THEN <<>> ELSE <<Head(ts)>>
       IN IF Len(ts) = 1 THEN w ELSE w \o <<"_">> \o Join(Tail(ts))

TokenSeqs == UNION {[1..k -> Tokens] : k \in 1..MaxTokens}
OpsOrders == {Join(ts) : ts \in TokenSeqs}

\* str.split('_'): the pieces between separators, empty pieces included.
RECURSIVE SplitFrom(_, _, _)
SplitFrom(s, cur, acc) ==
  IF Len(s) = 0 THEN Append(acc, cur)
  ELSE IF Head(s) = "_" THEN SplitFrom(Tail(s), "", Append(acc, cur))
       ELSE SplitFrom(Tail(s), Head(s), acc)

Split(s) == SplitFrom(s, "", <<>>)

Contains(seq, e) == \E i \in 1..Len(seq) : seq[i] = e

(***************************************************************************)
(* Output sizes of the framework layers the code builds, per spatial       *)
(* dimension.  0 stands for an input the layer rejects.                    *)
(***************************************************************************)
\* nn.Conv3d(kernel, stride, padding, dilation)
ConvOut(n, kernel, stride, padding, dilation) ==
  IF padding < 0 \/ n + 2 * padding < dilation * (kernel - 1) + 1 THEN 0
  ELSE (n + 2 * padding - dilation * (kernel - 1) - 1) \div stride + 1

\* nn.ConvTranspose3d(kernel, stride, padding, dilation), output_padding 0
ConvTransposeOut(n, kernel, stride, padding, dilation) ==
  LET out == (n - 1) * stride - 2 * padding + dilation * (kernel - 1) + 1
  IN IF padding < 0 \/ out < 1 THEN 0 ELSE out

\* nn.AvgPool3d / nn.MaxPool3d(kernel, stride), no padding, floor mode
PoolOut(n, kernel, stride) ==
  IF n < kernel THEN 0 ELSE (n - kernel) \div stride + 1

Rejected(x) == x.c = 0 \/ x.d = 0 \/ x.h = 0 \/ x.w = 0

\* A convolution layer built for cin -> cout channels, applied to x.
ConvLayer(x, cin, cout, transpose, kernel, stride, padding, dilation) ==
  IF x.c # cin THEN NoTensor
  ELSE LET f(n) == IF transpose
                   THEN ConvTransposeOut(n, kernel, stride, padding, dilation)
                   ELSE ConvOut(n, kernel, stride, padding, dilation)
           y == [c |-> cout, d |-> f(x.d), h |-> f(x.h), w |-> f(x.w)]
       IN IF Rejected(y) THEN NoTensor ELSE y

PoolLayer(x, kernel, stride) ==
  LET f(n) == PoolOut(n, kernel, stride)
      y == [c |-> x.c, d |-> f(x.d), h |-> f(x.h), w |-> f(x.w)]
  IN IF Rejected(y) THEN NoTensor ELSE y

\* nn.GroupNorm(group, channels) keeps the shape of a tensor of that width.
NormLayer(x, channels) == IF x.c # channels THEN NoTensor ELSE x

(***************************************************************************)
(* BaseOp.__init__ and the four classes' constructors.  An operation is    *)
(* the record of the attributes the constructors set; norm is the group    *)
(* count of self.norm, 0 when self.norm is None.                           *)
(***************************************************************************)
GroupCountUnguarded(out_channels) == out_channels \div ChannelsPerGroup

GroupCount(out_channels) ==
  IF out_channels % ChannelsPerGroup # 0 THEN 1
  ELSE out_channels \div ChannelsPerGroup

BaseOp(in_channels, out_channels, dropout_rate, ops_order) ==
  LET ops_list == Split(ops_order)
      group == IF Contains(ops_list, "norm") THEN GroupCount(out_channels) ELSE 0
  IN [ops_list |-> ops_list,
      group |-> group,
      norm |-> group,
      activation |-> Contains(ops_list, "act"),
      dropout |-> dropout_rate > 0]

PaddingNoDilation(dilation, kernel_size, stride) ==
  ((kernel_size - 1) - stride + 1) \div 2

Padding(dilation, kernel_size, stride) ==
  (dilation * (kernel_size - 1) - stride + 1) \div 2

ConvOps(in_channels, out_channels, kernel_size, stride, dilation, use_transpose, use_depthwise, dropout_rate, ops_order) ==
  LET b == BaseOp(in_channels, out_channels, dropout_rate, ops_order)
  IN [cls |-> "ConvOps",
      in_channels |-> in_channels, out_channels |-> out_channels,
      kernel_size |-> kernel_size, stride |-> stride,
      \* the depthwise layers are built without the dilation argument
      dilation |-> IF use_depthwise THEN 1 ELSE dilation,
      padding |-> Padding(dilation, kernel_size, stride),
      use_transpose |-> use_transpose, use_depthwise |-> use_depthwise,
      has_conv |-> TRUE, pool |-> "none",
      ops_list |-> b.ops_list, group |-> b.group, norm |-> b.norm,
      activation |-> b.activation, dropout |-> b.dropout]

SEConvOpKeepsNorm(in_channels, out_channels, kernel_size, stride, dilation, use_transpose, dropout_rate, ops_order) ==
  LET b == BaseOp(in_channels, out_channels, dropout_rate, ops_order)
  IN [cls |-> "SEConvOp",
      in_channels |-> in_channels, out_channels |-> out_channels,
      kernel_size |-> kernel_size, stride |-> stride,
      dilation |-> 1,
      padding |-> Padding(dilation, kernel_size, stride),
      use_transpose |-> use_transpose /\ stride >= 2, use_depthwise |-> FALSE,
      has_conv |-> stride >= 2, pool |-> "none",
      ops_list |-> b.ops_list, group |-> b.group, norm |-> b.norm,
      activation |-> b.activation, dropout |-> b.dropout]

SEConvOp(in_channels, out_channels, kernel_size, stride, dilation, use_transpose, dropout_rate, ops_order) ==
  LET b == BaseOp(in_channels, out_channels, dropout_rate, ops_order)
  IN [cls |-> "SEConvOp",
      in_channels |-> in_channels, out_channels |-> out_channels,
      kernel_size |-> kernel_size, stride |-> stride,
      \* self.conv is built without the dilation argument
      dilation |-> 1,
      padding |-> Padding(dilation, kernel_size, stride),
      \* use_transpose is read only when stride >= 2
      use_transpose |-> use_transpose /\ stride >= 2, use_depthwise |-> FALSE,
      has_conv |-> stride >= 2, pool |-> "none",
      ops_list |-> b.ops_list, group |-> b.group,
      norm |-> IF stride >= 2 THEN b.norm ELSE 0,
      activation |-> b.activation, dropout |-> b.dropout]

NotImplementedError == [cls |-> "NotImplementedError"]

PoolingOpFallsBack(in_channels, out_channels, pool_type, kernel_size, stride, ops_order) ==
  LET b == BaseOp(in_channels, out_channels, 0, ops_order)
  IN [cls |-> "PoolingOp",
      in_channels |-> in_channels, out_channels |-> out_channels,
      kernel_size |-> kernel_size, stride |-> stride,
      dilation |-> 1, padding |-> 0,
      use_transpose |-> FALSE, use_depthwise |-> FALSE,
      has_conv |-> FALSE, pool |-> IF pool_type = "max" THEN "max" ELSE "avg",
      ops_list |-> b.ops_list, group |-> b.group, norm |-> b.norm,
      activation |-> b.activation, dropout |-> b.dropout]

PoolingOp(in_channels, out_channels, pool_type, kernel_size, stride, ops_order) ==
  LET b == BaseOp(in_channels, out_channels, 0, ops_order)
  IN IF pool_type \notin {"avg", "max"} THEN NotImplementedError
     ELSE [cls |-> "PoolingOp",
           in_channels |-> in_channels, out_channels |-> out_channels,
           kernel_size |-> kernel_size, stride |-> stride,
           dilation |-> 1, padding |-> 0,
           use_transpose |-> FALSE, use_depthwise |-> FALSE,
           has_conv |-> FALSE, pool |-> pool_type,
           ops_list |-> b.ops_list, group |-> b.group, norm |-> b.norm,
           activation |-> b.activation, dropout |-> b.dropout]

IdentityOp(in_channels, out_channels, ops_order) ==
  LET b == BaseOp(in_channels, out_channels, 0, ops_order)
  IN [cls |-> "IdentityOp",
      in_channels |-> in_channels, out_channels |-> out_channels,
      kernel_size |-> 0, stride |-> 1,
      dilation |-> 1, padding |-> 0,
      use_transpose |-> FALSE, use_depthwise |-> FALSE,
      has_conv |-> FALSE, pool |-> "none",
      ops_list |-> b.ops_list, group |-> b.group, norm |-> b.norm,
      activation |-> b.activation, dropout |-> b.dropout]

\* The default values of the constructors' ops_order parameters.
ConvOpsOrder == <<"weight", "_", "norm", "_", "act">>
SEConvOpOrder == <<"weight", "_", "norm">>
PoolingOpOrder == <<"weight">>
IdentityOpOrder == <<"weight", "_", "norm", "_", "act">>

(***************************************************************************)
(* weight_call of each class and BaseOp.forward.  A run of forward is the  *)
(* record of where it stands: status "ok" while running and on return,     *)
(* "Warning" or "RuntimeError" once an exception left it; x is the current *)
(* tensor; trace lists the stages forward executed and calls the layers    *)
(* that were invoked, each with the tensor it was given and the one it     *)
(* returned, both in execution order.                                      *)
(***************************************************************************)
Raise(r, error) == [r EXCEPT !.status = error, !.x = NoTensor]

\* One layer call inside a stage: the framework raises when it rejects x.
Call(r, layer, y) ==
  LET call == [layer |-> layer, arg |-> r.x, out |-> y]
  IN IF r.status # "ok" THEN r
     ELSE IF Rejected(y) THEN Raise([r EXCEPT !.calls = Append(@, call)], "RuntimeError")
          ELSE [r EXCEPT !.x = y, !.calls = Append(@, call)]

ConvOps_weight_call(o, r) ==
  IF o.use_depthwise
  THEN LET r1 == Call(r, "depth_conv",
                      ConvLayer(r.x, o.in_channels, o.in_channels, o.use_transpose,
                                o.kernel_size, o.stride, o.padding, o.dilation))
       IN Call(r1, "point_conv",
               ConvLayer(r1.x, o.in_channels, o.out_channels, FALSE, 1, 1, 0, 1))
  ELSE Call(r, "conv",
            ConvLayer(r.x, o.in_channels, o.out_channels, o.use_transpose,
                      o.kernel_size, o.stride, o.padding, o.dilation))

\* x*y: the gate has out_channels entries and is viewed with x's channels.
SEConvOp_weight_call(o, r) ==
  LET gated == IF r.x.c = o.in_channels /\ r.x.c = o.out_channels THEN r.x ELSE NoTensor
      r1 == Call(r, "gate", gated)
  IN IF o.stride >= 2
     THEN Call(r1, "conv",
               ConvLayer(r1.x, o.in_channels, o.out_channels, o.use_transpose,
                         o.kernel_size, o.stride, o.padding, o.dilation))
     ELSE r1

PoolingOp_weight_call(o, r) ==
  Call(r, IF o.pool = "avg" THEN "avg_pool" ELSE "max_pool", PoolLayer(r.x, o.kernel_size, o.stride))

IdentityOp_weight_call(o, r) == r

weight_call(o, r) ==
  CASE o.cls = "ConvOps" -> ConvOps_weight_call(o, r)
    [] o.cls = "SEConvOp" -> SEConvOp_weight_call(o, r)
    [] o.cls = "PoolingOp" -> PoolingOp_weight_call(o, r)
    [] OTHER -> IdentityOp_weight_call(o, r)

Stage(r, name) == [r EXCEPT !.trace = Append(@, name)]

WeightStageDropoutLast(o, r) ==
  LET r1 == weight_call(o, Stage(r, "weight"))
  IN IF o.dropout /\ r1.status = "ok"
     THEN Call(Stage(r1, "dropout"), "dropout", r1.x)
     ELSE r1

\* op == 'weight': dropout, when there is one, then the class's weight_call
WeightStage(o, r) ==
  LET r1 == IF o.dropout THEN Call(Stage(r, "dropout"), "dropout", r.x) ELSE r
  IN weight_call(o, Stage(r1, "weight"))

NormStage(o, r) ==
  IF o.norm # 0 THEN Call(Stage(r, "norm"), "norm", NormLayer(r.x, o.out_channels)) ELSE r

ActStage(o, r) ==
  IF o.activation THEN Call(Stage(r, "act"), "act", r.x) ELSE r

UnrecognizedSkipped(o, r) == r

\* else: raise Warning('Unrecognized op: %s' % op)
Unrecognized(o, r) == Raise(r, "Warning")

RECURSIVE Loop(_, _, _)
Loop(o, i, r) ==
  IF r.status # "ok" \/ i > Len(o.ops_list) THEN r
  ELSE LET t == o.ops_list[i]
           r1 == CASE t = "weight" -> WeightStage(o, r)
                   [] t = "norm" -> NormStage(o, r)
                   [] t = "act" -> ActStage(o, r)
                   [] OTHER -> Unrecognized(o, r)
       IN Loop(o, i + 1, r1)

forward(o, x) == Loop(o, 1, [status |-> "ok", x |-> x, trace |-> <<>>, calls |-> <<>>])

(***************************************************************************)
(* The registry and the three name lists.  OpsKeys lists the keys of the   *)
(* dict literal in the order they are written.                             *)
(***************************************************************************)
OpsKeys ==
  <<"identity", "se_conv", "dil_conv", "dep_conv", "conv",
    "avg_pool", "max_pool", "down_se_conv", "down_dil_conv", "down_dep_conv",
    "down_conv", "up_se_conv", "up_dep_conv", "up_conv", "up_dil_conv">>

KeyError == [cls |-> "KeyError"]

\* The factories as they would be if they handed their stride argument on.
OPSPassesStride(name, c, stride) ==
  CASE name = "identity" -> IdentityOp(c, c, IdentityOpOrder)
    [] name = "se_conv" -> SEConvOp(c, c, KernelSize, 1, 1, FALSE, 0, SEConvOpOrder)
    [] name = "dil_conv" -> ConvOps(c, c, KernelSize, 1, 2, FALSE, FALSE, 0, ConvOpsOrder)
    [] name = "dep_conv" -> ConvOps(c, c, KernelSize, 1, 1, FALSE, TRUE, 0, ConvOpsOrder)
    [] name = "conv" -> ConvOps(c, c, KernelSize, 1, 1, FALSE, FALSE, 0, ConvOpsOrder)
    [] name = "avg_pool" -> PoolingOp(c, c, "avg", PoolKernel, PoolStride, PoolingOpOrder)
    [] name = "max_pool" -> PoolingOp(c, c, "max", PoolKernel, PoolStride, PoolingOpOrder)
    [] name = "down_se_conv" -> SEConvOp(c, c, KernelSize, stride, 1, FALSE, 0, SEConvOpOrder)
    [] name = "down_dil_conv" -> ConvOps(c, c, KernelSize, stride, 2, FALSE, FALSE, 0, ConvOpsOrder)
    [] name = "down_dep_conv" -> ConvOps(c, c, KernelSize, stride, 1, FALSE, TRUE, 0, ConvOpsOrder)
    [] name = "down_conv" -> ConvOps(c, c, KernelSize, stride, 1, FALSE, FALSE, 0, ConvOpsOrder)
    [] name = "up_se_conv" -> SEConvOp(c, c, KernelSize, stride, 1, TRUE, 0, SEConvOpOrder)
    [] name = "up_dep_conv" -> ConvOps(c, c, KernelSize, stride, 1, TRUE, TRUE, 0, ConvOpsOrder)
    [] name = "up_conv" -> ConvOps(c, c, KernelSize, stride, 1, TRUE, FALSE, 0, ConvOpsOrder)
    [] name = "up_dil_conv" -> ConvOps(c, c, KernelSize, stride, 2, TRUE, FALSE, 0, ConvOpsOrder)
    [] OTHER -> KeyError

\* OPS[name](c, stride); an absent key is a lookup error at the call site.
OPS(name, c, stride) ==
  CASE name = "identity" -> IdentityOp(c, c, IdentityOpOrder)
    [] name = "se_conv" -> SEConvOp(c, c, KernelSize, 1, 1, FALSE, 0, SEConvOpOrder)
    [] name = "dil_conv" -> ConvOps(c, c, KernelSize, 1, 2, FALSE, FALSE, 0, ConvOpsOrder)
    [] name = "dep_conv" -> ConvOps(c, c, KernelSize, 1, 1, FALSE, TRUE, 0, ConvOpsOrder)
    [] name = "conv" -> ConvOps(c, c, KernelSize, 1, 1, FALSE, FALSE, 0, ConvOpsOrder)
    [] name = "avg_pool" -> PoolingOp(c, c, "avg", PoolKernel, PoolStride, PoolingOpOrder)
    [] name = "max_pool" -> PoolingOp(c, c, "max", PoolKernel, PoolStride, PoolingOpOrder)
    [] name = "down_se_conv" -> SEConvOp(c, c, KernelSize, 2, 1, FALSE, 0, SEConvOpOrder)
    [] name = "down_dil_conv" -> ConvOps(c, c, KernelSize, 2, 2, FALSE, FALSE, 0, ConvOpsOrder)
    [] name = "down_dep_conv" -> ConvOps(c, c, KernelSize, 2, 1, FALSE, TRUE, 0, ConvOpsOrder)
    [] name = "down_conv" -> ConvOps(c, c, KernelSize, 2, 1, FALSE, FALSE, 0, ConvOpsOrder)
    [] name = "up_se_conv" -> SEConvOp(c, c, KernelSize, 2, 1, TRUE, 0, SEConvOpOrder)
    [] name = "up_dep_conv" -> ConvOps(c, c, KernelSize, 2, 1, TRUE, TRUE, 0, ConvOpsOrder)
    [] name = "up_conv" -> ConvOps(c, c, KernelSize, 2, 1, TRUE, FALSE, 0, ConvOpsOrder)
    [] name = "up_dil_conv" -> ConvOps(c, c, KernelSize, 2, 2, TRUE, FALSE, 0, ConvOpsOrder)
    [] OTHER -> KeyError

DownOpsWithForeignName ==
  <<"avg_pool", "max_pool", "down_se_conv", "down_dil_conv", "down_dep_conv",
    "down_conv", "down_pool">>

DownOps ==
  <<"avg_pool", "max_pool", "down_se_conv", "down_dil_conv", "down_dep_conv",
    "down_conv">>

UpOps == <<"up_se_conv", "up_dep_conv", "up_conv", "up_dil_conv">>

NormOps == <<"identity", "se_conv", "dil_conv", "dep_conv", "conv">>

Range(seq) == {seq[i] : i \in 1..Len(seq)}

(***************************************************************************)
(* The state: one operation slot, as an external controller fills it for   *)
(* an edge of a cell, applies the operation and discards it.               *)
(*   phase   "idle", "built", "applied", "ctor_error" or "lookup_error"    *)
(*   req     how the operation was asked for                               *)
(*   op      the operation built, NoOp when there is none                  *)
(*   input   the tensor of the last apply                                  *)
(*   result  the run of the last apply                                     *)
(***************************************************************************)
Init ==
  /\ phase = "idle"
  /\ req = NoReq
  /\ op = NoOp
  /\ input = NoTensor
  /\ result = NoResult

Built(o, r) ==
  /\ phase = "idle"
  /\ req' = r
  /\ IF o.cls = "KeyError" THEN phase' = "lookup_error" /\ op' = NoOp
     ELSE IF o.cls = "NotImplementedError" THEN phase' = "ctor_error" /\ op' = NoOp
     ELSE phase' = "built" /\ op' = o
  /\ UNCHANGED <<input, result>>

Request(via, name, c, stride, pool_type, dropout_rate, order_given) ==
  [via |-> via, name |-> name, c |-> c, stride |-> stride, pool_type |-> pool_type,
   dropout_rate |-> dropout_rate, order_given |-> order_given]

\* The controller takes a name from one of its lists and calls the factory.
Lookup(name, c, stride) ==
  Built(OPS(name, c, stride), Request("OPS", name, c, stride, "", 0, FALSE))

\* An ops_order argument: given, or left to the constructor's default.
OrderArgs ==
  {[given |-> TRUE, value |-> s] : s \in OpsOrders} \cup {[given |-> FALSE, value |-> <<>>]}

OrderOr(a, default) == IF a.given THEN a.value ELSE default

NewConvOps(c, stride, dilation, use_transpose, use_depthwise, dropout_rate, a) ==
  Built(ConvOps(c, c, KernelSize, stride, dilation, use_transpose, use_depthwise,
                dropout_rate, OrderOr(a, ConvOpsOrder)),
        Request("ConvOps", "", c, stride, "", dropout_rate, a.given))

NewSEConvOp(c, stride, dilation, use_transpose, dropout_rate, a) ==
  Built(SEConvOp(c, c, KernelSize, stride, dilation, use_transpose,
                 dropout_rate, OrderOr(a, SEConvOpOrder)),
        Request("SEConvOp", "", c, stride, "", dropout_rate, a.given))

NewPoolingOp(c, pool_type, a) ==
  Built(PoolingOp(c, c, pool_type, PoolKernel, PoolStride, OrderOr(a, PoolingOpOrder)),
        Request("PoolingOp", "", c, PoolStride, pool_type, 0, a.given))

NewIdentityOp(c, a) ==
  Built(IdentityOp(c, c, OrderOr(a, IdentityOpOrder)),
        Request("IdentityOp", "", c, 1, "", 0, a.given))

\* apply: forward on a 5-D tensor with the operation's channels, size (n, n, n)
Forward(n) ==
  /\ phase \in {"built", "applied"}
  /\ phase' = "applied"
  /\ input' = [c |-> op.in_channels, d |-> n, h |-> n, w |-> n]
  /\ result' = forward(op, input')
  /\ UNCHANGED <<req, op>>

Discard ==
  /\ phase # "idle"
  /\ phase' = "idle"
  /\ req' = NoReq
  /\ op' = NoOp
  /\ input' = NoTensor
  /\ result' = NoResult

(***************************************************************************)
(* Spec: operations built through the registry.                            *)
(***************************************************************************)
SearchNames == Range(DownOps) \cup Range(UpOps) \cup Range(NormOps)
Channels == 1..MaxChannels
Strides == 1..MaxStride
Dilations == 1..MaxDilation
Sizes == 1..MaxN
DropoutRates == {0, 1}
PoolTypes == {"avg", "max", "lp"}

LookupAny ==
  /\ phase = "idle"
  /\ \E name \in SearchNames, c \in Channels, stride \in Strides : Lookup(name, c, stride)

ForwardAny == phase \in {"built", "applied"} /\ \E n \in Sizes : Forward(n)

Next == LookupAny \/ ForwardAny \/ Discard

Spec == Init /\ [][Next]_vars

(***************************************************************************)
(* SpecOrder: operations built by calling the constructors with any        *)
(* ops_order, dropout rate and layer flags, and applied.                   *)
(***************************************************************************)
OrderChannels == {ChannelsPerGroup * k : k \in 1..MaxGroups}
OrderSizes == {1, MaxN}

ConvOpsAny ==
  /\ phase = "idle"
  /\ \E c \in OrderChannels, stride \in Strides, dilation \in Dilations,
     use_transpose \in BOOLEAN, use_depthwise \in BOOLEAN,
     dropout_rate \in DropoutRates, a \in OrderArgs :
    NewConvOps(c, stride, dilation, use_transpose, use_depthwise, dropout_rate, a)

SEConvOpAny ==
  /\ phase = "idle"
  /\ \E c \in OrderChannels, stride \in Strides, dilation \in Dilations,
     use_transpose \in BOOLEAN, dropout_rate \in DropoutRates, a \in OrderArgs :
    NewSEConvOp(c, stride, dilation, use_transpose, dropout_rate, a)

PoolingOpAny ==
  /\ phase = "idle"
  /\ \E c \in OrderChannels, pool_type \in PoolTypes, a \in OrderArgs :
    NewPoolingOp(c, pool_type, a)

IdentityOpAny ==
  /\ phase = "idle"
  /\ \E c \in OrderChannels, a \in OrderArgs : NewIdentityOp(c, a)

ForwardOrder == phase \in {"built", "applied"} /\ \E n \in OrderSizes : Forward(n)

NextOrder ==
  ConvOpsAny \/ SEConvOpAny \/ PoolingOpAny \/ IdentityOpAny \/ ForwardOrder \/ Discard

SpecOrder == Init /\ [][NextOrder]_vars

(***************************************************************************)
(* SpecNorm: the constructors over the whole range of channel counts.      *)
(***************************************************************************)
ConvOpsWide ==
  /\ phase = "idle"
  /\ \E c \in Channels, a \in OrderArgs : NewConvOps(c, 1, 1, FALSE, FALSE, 0, a)

SEConvOpWide ==
  /\ phase = "idle"
  /\ \E c \in Channels, stride \in Strides, a \in OrderArgs :
    NewSEConvOp(c, stride, 1, FALSE, 0, a)

PoolingOpWide ==
  /\ phase = "idle"
  /\ \E c \in Channels, pool_type \in PoolTypes, a \in OrderArgs : NewPoolingOp(c, pool_type, a)

IdentityOpWide ==
  /\ phase = "idle"
  /\ \E c \in Channels, a \in OrderArgs : NewIdentityOp(c, a)

NextNorm == ConvOpsWide \/ SEConvOpWide \/ PoolingOpWide \/ IdentityOpWide \/ Discard

SpecNorm == Init /\ [][NextNorm]_vars

(***************************************************************************)
(* Properties.                                                             *)
(***************************************************************************)
Cube(c, n) == [c |-> c, d |-> n, h |-> n, w |-> n]

AppliedFrom(names) == phase = "applied" /\ req.via = "OPS" /\ req.name \in Range(names)

Layers(r) == [i \in 1..Len(r.calls) |-> r.calls[i].layer]

\* C1: an operation built by OPS[name](c, stride) for a name of DownOps maps
\* an input of c channels and spatial size (n, n, n) to an output of c
\* channels and spatial size floor(n / 2) in every dimension; stated for the
\* inputs the operation returns a tensor for.
C1_DownOpsHalve ==
  (AppliedFrom(DownOps) /\ result.status = "ok")
    => result.x = Cube(req.c, input.d \div 2)

\* C2: an operation built by OPS[name](c, stride) for a name of UpOps maps an
\* input of c channels and spatial size (n, n, n) to an output of c channels
\* and spatial size 2 * n in every dimension.
C2_UpOpsDouble ==
  AppliedFrom(UpOps)
    => /\ result.status = "ok"
       /\ result.x = Cube(req.c, 2 * input.d)

\* C3: an operation built by OPS[name](c, stride) for a name of NormOps
\* returns an output of the input's shape: c channels, spatial size (n, n, n).
C3_NormOpsPreserveShape ==
  AppliedFrom(NormOps)
    => /\ input = Cube(req.c, input.d)
       /\ result.status = "ok"
       /\ result.x = input

C3_Witness ==
  /\ AppliedFrom(NormOps)
  /\ req.name = "dil_conv"
  /\ op.dilation = 2
  /\ input.d = 8
  /\ result.x = Cube(req.c, 8)

AllRecognized(o) == \A i \in 1..Len(o.ops_list) : o.ops_list[i] \in Recognized

\* The stages the tokens of an ops_list declare, norm tokens as given by normOf.
RECURSIVE Declared(_, _, _)
Declared(ops_list, dropout, normOf) ==
  IF Len(ops_list) = 0 THEN <<>>
  ELSE LET t == Head(ops_list)
           stages == CASE t = "weight" -> IF dropout THEN <<"dropout", "weight">>
                                          ELSE <<"weight">>
                       [] t = "norm" -> normOf
                       [] OTHER -> <<t>>
       IN stages \o Declared(Tail(ops_list), dropout, normOf)

\* ConvOps with ops-order weight_norm_act: dropout (if rate > 0), convolution,
\* group normalization on the convolution's output, ReLU.
ConvOpsPipeline ==
  (op.cls = "ConvOps" /\ ~op.use_depthwise /\ op.ops_list = <<"weight", "norm", "act">>)
    => /\ Layers(result) = (IF req.dropout_rate > 0 THEN <<"dropout">> ELSE <<>>)
                             \o <<"conv", "norm", "act">>
       /\ \A i \in 1..Len(result.calls) :
            result.calls[i].layer = "norm"
              => /\ i > 1
                 /\ result.calls[i - 1].layer = "conv"
                 /\ result.calls[i].arg = result.calls[i - 1].out

\* C4 as claimed: for every ops-order of tokens from {weight, norm, act}, a
\* completed apply runs one stage per token in the declared order, with
\* dropout (only when the rate is > 0) right before each weight stage.
C4_OneStagePerToken ==
  (phase = "applied" /\ result.status = "ok" /\ AllRecognized(op))
    => /\ result.trace = Declared(op.ops_list, req.dropout_rate > 0, <<"norm">>)
       /\ ConvOpsPipeline

\* C4 as amended: the same, except that an SEConvOp built with stride < 2
\* runs no stage for a norm token.
C4_StagesInDeclaredOrder ==
  (phase = "applied" /\ result.status = "ok" /\ AllRecognized(op))
    => /\ result.trace =
            Declared(op.ops_list, req.dropout_rate > 0,
                     IF op.cls = "SEConvOp" /\ req.stride < 2 THEN <<>> ELSE <<"norm">>)
       /\ ConvOpsPipeline

C4_Witness ==
  /\ phase = "applied"
  /\ op.cls = "ConvOps"
  /\ op.stride = 2
  /\ ~op.use_depthwise
  /\ req.dropout_rate > 0
  /\ op.ops_list = <<"weight", "norm", "act">>
  /\ result.status = "ok"
  /\ result.trace = <<"dropout", "weight", "norm", "act">>
  /\ Layers(result) = <<"dropout", "conv", "norm", "act">>
  /\ result.calls[3].arg # input

\* The operation with its ops_list cut before the first unrecognized token.
FirstUnrecognized(o) ==
  CHOOSE i \in 1..Len(o.ops_list) :
    /\ o.ops_list[i] \notin Recognized
    /\ \A j \in 1..(i - 1) : o.ops_list[j] \in Recognized

CutBeforeUnrecognized(o) ==
  [o EXCEPT !.ops_list = SubSeq(o.ops_list, 1, FirstUnrecognized(o) - 1)]

C6_SEConvOpWithoutStride ==
  (phase \in {"built", "applied"} /\ op.cls = "SEConvOp")
    => /\ req.stride < 2
            => /\ op.norm = 0
               /\ ~Contains(result.trace, "norm")
               /\ \A i \in 1..Len(result.calls) :
                    /\ result.calls[i].layer \in {"dropout", "gate", "act"}
                    /\ result.calls[i].out = input
       /\ Contains(Layers(result), "conv") => req.stride >= 2
       /\ req.stride >= 2
            => \A i \in 1..Len(result.calls) :
                 result.calls[i].layer = "gate"
                   => /\ i < Len(result.calls)
                      /\ result.calls[i + 1].layer = "conv"
                      /\ result.calls[i + 1].arg = result.calls[i].out

C6_Witness ==
  /\ phase = "applied"
  /\ op.cls = "SEConvOp"
  /\ req.stride = 1
  /\ op.ops_list = <<"weight", "norm">>
  /\ op.group > 0
  /\ result.status = "ok"
  /\ result.trace = <<"weight">>
  /\ Layers(result) = <<"gate">>
  /\ result.x = input

\* C7: for an operation whose ops-order contains norm, the group count
\* chosen for group normalization is out_channels / 16 when 16 divides
\* out_channels and 1 otherwise (48 gives 3, 32 gives 2, 20 gives 1): a
\* positive divisor of out_channels.
C7_GroupCount ==
  (phase = "built" /\ Contains(op.ops_list, "norm"))
    => /\ op.out_channels = req.c
       /\ op.out_channels % 16 = 0 => op.group * 16 = op.out_channels
       /\ op.out_channels % 16 # 0 => op.group = 1
       /\ op.out_channels = 48 => op.group = 3
       /\ op.out_channels = 32 => op.group = 2
       /\ op.out_channels = 20 => op.group = 1
       /\ op.group >= 1
       /\ op.out_channels % op.group = 0
       /\ op.norm \in {0, op.group}
       /\ op.norm = 0 => (op.cls = "SEConvOp" /\ req.stride < 2)

C7_Witness ==
  /\ phase = "built"
  /\ op.cls = "ConvOps"
  /\ op.ops_list = <<"norm", "weight">>
  /\ op.out_channels = 48
  /\ op.norm = 3

NoRepeats(seq) == \A i, j \in 1..Len(seq) : seq[i] = seq[j] => i = j

\* C8: the registry's names are unique; DownOps, UpOps and NormOps have no
\* repeated name, are pairwise disjoint, and hold only keys of OPS, so that a
\* lookup of a name taken from them never fails.
C8_RegistryNames ==
  /\ NoRepeats(OpsKeys)
  /\ NoRepeats(DownOps) /\ NoRepeats(UpOps) /\ NoRepeats(NormOps)
  /\ Range(DownOps) \cap Range(UpOps) = {}
  /\ Range(DownOps) \cap Range(NormOps) = {}
  /\ Range(UpOps) \cap Range(NormOps) = {}
  /\ SearchNames \subseteq Range(OpsKeys)
  /\ phase # "lookup_error"
  /\ (req.via = "OPS" /\ req.name \in Range(OpsKeys)) => op.cls \notin {"none", "KeyError"}

C8_Witness ==
  /\ phase = "built"
  /\ req.via = "OPS"
  /\ req.name = "down_conv"
  /\ req.name \in Range(DownOps)
  /\ op.cls = "ConvOps"

\* C9: constructing a PoolingOp with a pool type other than avg or max fails
\* with NotImplementedError and yields no operation; with avg or max it
\* succeeds, and under the default ops-order apply runs the weight stage
\* only: no normalization, no activation.
C9_PoolingOp ==
  req.via = "PoolingOp"
    => /\ req.pool_type \notin {"avg", "max"} => (phase = "ctor_error" /\ op = NoOp)
       /\ req.pool_type \in {"avg", "max"}
            => /\ phase \in {"built", "applied"}
               /\ op.cls = "PoolingOp"
               /\ op.pool = req.pool_type
               /\ ~req.order_given
                    => /\ op.ops_list = <<"weight">>
                       /\ op.norm = 0 /\ ~op.activation /\ ~op.dropout
                       /\ phase = "applied"
                            => /\ result.trace = <<"weight">>
                               /\ Layers(result) = <<IF req.pool_type = "avg"
                                                     THEN "avg_pool" ELSE "max_pool">>

C9_Witness ==
  /\ phase = "ctor_error"
  /\ req.via = "PoolingOp"
  /\ req.pool_type = "lp"
  /\ op = NoOp

\* C10: the operation OPS[name](c, stride) builds is the same for every
\* stride argument: its stride, dilation, transpose and depthwise settings
\* are fixed by the name alone.
C10_StrideArgumentIgnored ==
  (phase \in {"built", "applied"} /\ req.via = "OPS")
    => /\ \A s \in Strides : op = OPS(req.name, req.c, s)
       /\ op.stride = (IF req.name \in Range(DownOps) \cup Range(UpOps) THEN 2 ELSE 1)
       /\ op.use_transpose = (req.name \in Range(UpOps))

C10_Witness ==
  /\ phase = "built"
  /\ req.via = "OPS"
  /\ req.name = "down_conv"
  /\ req.stride = 1
  /\ op.stride = 2

====
